---- MODULE Spec2Model ----
(***************************************************************************)
(* A model of filly: the Filly session (src/filly/filly.py) and the S3     *)
(* helper (src/filly/s3.py).                                               *)
(*                                                                         *)
(* A path is a sequence of tokens: the separator "/" and atomic component  *)
(* names such as "a" or "x.json".  os.path.dirname, basename and join are  *)
(* computed on these sequences the way posixpath computes them on strings. *)
(* One call of a public method is one action; the events it performs, in   *)
(* order, are recorded in trace, and its arguments and outcome in call.    *)
(***************************************************************************)
EXTENDS Integers, Sequences, FiniteSets, TLC

VARIABLES
    constructed,    \* a Filly object exists
    remote,         \* self.remote
    bucket,         \* self.s3.bucket ("Unset" when there is no self.s3)
    filepath,       \* self.filepath
    filename,       \* self.filename
    fullpath,       \* self.fullpath
    data,           \* self.data
    dirs,           \* local directories that exist (normalised paths)
    files,          \* local files: normalised path -> content
    call,           \* the most recent call: operation, arguments, outcome
    trace,          \* the events of the most recent call, in order
    ncalls,         \* number of calls made on the session
    pages,          \* the listing pages the object store will return
    lpc,            \* get_blob_references_from_s3: "idle", "loop", "done", "error"
    next_token,     \* get_blob_references_from_s3: next_token
    keys,           \* get_blob_references_from_s3: keys
    requests        \* ContinuationToken of each list_objects_v2 request so far

fvars == <<constructed, remote, bucket, filepath, filename, fullpath, data,
           dirs, files, call, trace, ncalls>>
lvars == <<pages, lpc, next_token, keys, requests>>
vars == <<fvars, lvars>>

----------------------------------------------------------------------------
(* Bounds *)

MaxCalls == 2
MaxPages == 3
MaxPageKeys == 1

----------------------------------------------------------------------------
(* Values *)

\* Python None passed for an optional path argument.
None == <<"None">>
\* An attribute that was never assigned: reading it raises AttributeError.
Unset == <<"Unset">>
SEP == "/"

\* Path(name).suffix of a single component token.
TokenSuffix(tok) ==
    CASE tok = "x.json" -> ".json"
      [] tok = "y.csv" -> ".csv"
      [] tok = "p.pkl" -> ".pkl"
      [] tok = "q.pickle" -> ".pickle"
      [] tok = "z.parquet" -> ".parquet"
      [] OTHER -> ""

ArgFilePaths == {None, <<"a">>}
ArgFileNames == {None, <<"y.csv">>, <<"z.parquet">>}
ArgFullPaths == {None, <<"c", SEP, "x.json">>, <<"c", SEP, "p.pkl">>}
ArgData == {"dict", "frame"}
ArgText == {"text"}
ArgRemotes == {"None", "s3", "hdfs", "ftp"}
ArgBuckets == {"None", "", "tmp"}
RemoteContents == {"json", "csv"}
HdfsDir == <<"remote">>

----------------------------------------------------------------------------
(* posixpath *)

\* p.rfind('/') + 1
LastSep(p) ==
    LET S == {i \in 1..Len(p) : p[i] = SEP}
    IN  IF S = {} THEN 0 ELSE CHOOSE i \in S : \A j \in S : j <= i

RECURSIVE RStrip(_)
RStrip(p) ==
    IF p # <<>> /\ p[Len(p)] = SEP THEN RStrip(SubSeq(p, 1, Len(p) - 1)) ELSE p

basename(p) == SubSeq(p, LastSep(p) + 1, Len(p))

dirname(p) ==
    LET head == SubSeq(p, 1, LastSep(p))
    IN  IF head # <<>> /\ (\E i \in 1..Len(head) : head[i] # SEP)
        THEN RStrip(head)
        ELSE head

join(a, b) ==
    IF b # <<>> /\ b[1] = SEP THEN b
    ELSE IF a = <<>> \/ a[Len(a)] = SEP THEN a \o b
    ELSE a \o <<SEP>> \o b

RECURSIVE Collapse(_)
Collapse(p) ==
    IF Len(p) <= 1 THEN p
    ELSE IF p[1] = SEP /\ p[2] = SEP THEN Collapse(Tail(p))
    ELSE <<p[1]>> \o Collapse(Tail(p))

\* The file-system object a path string denotes.
Norm(p) ==
    LET c == Collapse(p)
    IN  IF c = <<SEP>> THEN c ELSE RStrip(c)

\* pathlib: Path(p).suffix
suffix(p) ==
    LET name == basename(Norm(p))
    IN  IF name = <<>> THEN "" ELSE TokenSuffix(name[Len(name)])

----------------------------------------------------------------------------
(* The running call: session attributes, local file system, events, error *)

Ev(m, ev, p) == [m EXCEPT !.trace = Append(@, [ev |-> ev, path |-> p])]
Raise(m, e) == [m EXCEPT !.err = e]

IsDir(m, p) == Norm(p) = <<SEP>> \/ Norm(p) \in m.dirs
IsFile(m, p) == p # <<>> /\ Norm(p) \in DOMAIN m.files
\* os.path.exists
exists(m, p) == p # <<>> /\ (IsDir(m, p) \/ IsFile(m, p))
\* the directory holding p exists ('' is the working directory)
ParentOK(m, p) ==
    LET d == dirname(Norm(p)) IN d = <<>> \/ IsDir(m, d)

Ancestors(p) ==
    LET n == Norm(p)
    IN  {SubSeq(n, 1, i) : i \in {j \in 1..Len(n) :
                                    /\ n[j] # SEP
                                    /\ (j = Len(n) \/ n[j + 1] = SEP)}}

\* os.makedirs(p, exist_ok=True)
makedirs(m, p) ==
    IF p = <<>> THEN Raise(m, "FileNotFoundError")
    ELSE IF \E d \in Ancestors(p) : d \in DOMAIN m.files
    THEN Raise(m, "FileExistsError")
    ELSE Ev([m EXCEPT !.dirs = @ \cup Ancestors(p)], "makedirs", p)

\* the file p with content c
PutFile(m, p, c) ==
    [m EXCEPT !.files = [q \in DOMAIN @ \cup {Norm(p)} |->
                            IF q = Norm(p) THEN c ELSE @[q]]]

DelFile(m, p) ==
    [m EXCEPT !.files = [q \in DOMAIN @ \ {Norm(p)} |-> @[q]]]

\* why open(p, 'w') fails, or "ok"
OpenWErr(m, p) ==
    IF p = Unset THEN "AttributeError"
    ELSE IF p = <<>> \/ ~ParentOK(m, p) THEN "FileNotFoundError"
    ELSE IF p[Len(p)] = SEP \/ IsDir(m, p) THEN "IsADirectoryError"
    ELSE "ok"

\* open(p, 'w'): creates or truncates the file
open_w(m, p) ==
    IF OpenWErr(m, p) # "ok" THEN Raise(m, OpenWErr(m, p))
    ELSE Ev(PutFile(m, p, "empty"), "open_w", p)

\* open(p, 'r')
open_r(m, p) ==
    IF p = Unset THEN Raise(m, "AttributeError")
    ELSE IF IsDir(m, p) /\ p # <<>> THEN Raise(m, "IsADirectoryError")
    ELSE IF ~IsFile(m, p) THEN Raise(m, "FileNotFoundError")
    ELSE Ev(m, "open_r", p)

----------------------------------------------------------------------------
(* Codecs: what the json / pandas readers make of a file's content.  A     *)
(* file's content is the format it was written in ("json", "csv",          *)
(* "pickle", "text") or "empty" for a file that was only opened.           *)

Decode(codec, content, lenient) ==
    CASE codec = "json" ->
            IF content = "json" THEN "dict"
            ELSE IF content = "text" /\ lenient THEN "garbled"
            ELSE "DecodeError"
      [] codec = "csv" ->
            IF content = "csv" THEN "frame"
            ELSE IF content \in {"json", "text"} THEN "garbled"
            ELSE "DecodeError"
      [] codec = "pickle" ->
            IF content = "pickle" THEN "frame" ELSE "DecodeError"

\* mode 'r' of the three handlers
read_handler(m, codec, env) ==
    LET m1 == open_r(m, m.fullpath)
        d == Decode(codec, m.files[Norm(m.fullpath)], env.lenient)
    IN  IF m1.err # "ok" THEN m1
        ELSE IF d = "DecodeError" THEN Raise(m1, "DecodeError")
        ELSE Ev([m1 EXCEPT !.data = d], "decode", m.fullpath)

_json_handler(m, mode, d, env) ==
    IF mode = "r" THEN read_handler(m, "json", env)
    ELSE LET m1 == open_w(m, m.fullpath)
         IN  IF m1.err # "ok" THEN m1
             ELSE IF d = "frame" THEN Raise(m1, "TypeError")
             ELSE Ev(PutFile(m1, m.fullpath, "json"), "encode", m.fullpath)

_csv_handler(m, mode, d, env) ==
    IF mode = "r" THEN read_handler(m, "csv", env)
    ELSE IF d # "frame" THEN Raise(m, "AttributeError")
    ELSE LET m1 == open_w(m, m.fullpath)
         IN  IF m1.err # "ok" THEN m1
             ELSE Ev(PutFile(m1, m.fullpath, "csv"), "encode", m.fullpath)

_pickle_handler(m, mode, d, env) ==
    IF mode = "r" THEN read_handler(m, "pickle", env)
    ELSE IF d # "frame" THEN Raise(m, "AttributeError")
    ELSE LET m1 == open_w(m, m.fullpath)
         IN  IF m1.err # "ok" THEN m1
             ELSE Ev(PutFile(m1, m.fullpath, "pickle"), "encode", m.fullpath)

_read_or_write(m, mode, d, env) ==
    IF m.err # "ok" THEN m
    ELSE IF m.filename = Unset THEN Raise(m, "AttributeError")
    ELSE LET file_extension == suffix(m.filename)
         IN  IF file_extension = ".json" THEN _json_handler(m, mode, d, env)
             ELSE IF file_extension = ".csv" THEN _csv_handler(m, mode, d, env)
             ELSE IF file_extension \in {".pkl", ".pickle"}
             THEN _pickle_handler(m, mode, d, env)
             ELSE Raise(m, "TypeError")

----------------------------------------------------------------------------
(* S3 (src/filly/s3.py) *)

put_to_s3(m, local_dir, remote_dir, fname, env) ==
    LET local == join(local_dir, fname)
        m1 == Ev(m, "s3_put", local)
    IN  IF ~IsFile(m, local) THEN Raise(m1, "FileNotFoundError")
        ELSE IF ~env.s3ok THEN Raise(m1, "S3Error")
        ELSE m1

get_from_s3(m, remote_dir, local_dir, fname, env) ==
    LET current_fpath == join(local_dir, fname)
        m1 == Ev(m, "s3_get", current_fpath)
    IN  IF ~env.s3ok THEN Raise(m1, "S3Error")
        ELSE IF OpenWErr(m, current_fpath) # "ok"
        THEN Raise(m1, OpenWErr(m, current_fpath))
        ELSE PutFile(m1, current_fpath, env.rcontent)

----------------------------------------------------------------------------
(* Filly (src/filly/filly.py) *)

\* Filly.__init__ testing the bucket name against None only
InitErr_none_only(r, b) ==
    IF r \notin {"s3", "hdfs", "None"} THEN "ValueError"
    ELSE IF r = "s3" /\ b = "None" THEN "ValueError"
    ELSE "ok"

\* Filly.__init__: the error it raises, or "ok"
InitErr(r, b) ==
    IF r \notin {"s3", "hdfs", "None"} THEN "ValueError"
    ELSE IF r = "s3" /\ b \in {"None", ""} THEN "ValueError"
    ELSE "ok"

\* __set_path assigning filename without the test for None
__set_path_unguarded(m, fp, fn, full) ==
    LET m1 == IF full # None
              THEN [m EXCEPT !.fullpath = full,
                             !.filepath = dirname(full),
                             !.filename = basename(full)]
              ELSE m
        m2 == [m1 EXCEPT !.filename = fn]
        m3 == IF fn # None /\ fp # None
              THEN [m2 EXCEPT !.filepath = fp, !.fullpath = join(fp, fn)]
              ELSE m2
    IN  Ev(m3, "set_path", m3.fullpath)

__set_path(m, fp, fn, full) ==
    LET m1 == IF full # None
              THEN [m EXCEPT !.fullpath = full,
                             !.filepath = dirname(full),
                             !.filename = basename(full)]
              ELSE m
        m2 == IF fn # None THEN [m1 EXCEPT !.filename = fn] ELSE m1
        m3 == IF fn # None /\ fp # None
              THEN [m2 EXCEPT !.filepath = fp, !.fullpath = join(fp, fn)]
              ELSE m2
    IN  Ev(m3, "set_path", m3.fullpath)

_upload_to_hdfs(m, hdfs_dir, env) ==
    LET m1 == Ev(m, "hdfs_test", hdfs_dir)
        m2 == IF env.testret = 0 THEN Ev(m1, "hdfs_rm", hdfs_dir) ELSE m1
        m3 == Ev(m2, "hdfs_put", hdfs_dir)
    IN  IF m.fullpath = Unset THEN Raise(m2, "AttributeError")
        ELSE IF env.cperr THEN Ev(m3, "log_error", hdfs_dir)
        ELSE Ev(m3, "log_info", hdfs_dir)

_download_from_hdfs(m, hdfs_dir, env) ==
    LET m1 == IF IsFile(m, m.fullpath)
              THEN Ev(DelFile(m, m.fullpath), "remove", m.fullpath)
              ELSE m
        m2 == Ev(m1, "hdfs_get", join(hdfs_dir, m.filename))
    IN  IF m.fullpath = Unset THEN Raise(m, "AttributeError")
        ELSE IF env.cperr \/ OpenWErr(m1, m.fullpath) # "ok"
        THEN Ev(m2, "log_error", hdfs_dir)
        ELSE Ev(PutFile(m2, m.fullpath, env.rcontent), "log_info", hdfs_dir)

\* write_data, lines 95-96
ensure_dir(m) ==
    IF m.filepath = Unset THEN Raise(m, "AttributeError")
    ELSE IF ~exists(m, m.filepath) THEN makedirs(m, m.filepath)
    ELSE m

\* write_data, lines 100-107.  hdfs_dir is not a name defined anywhere in
\* the module, so evaluating the argument raises NameError before the call.
write_remote(m, r, env) ==
    IF m.err # "ok" THEN m
    ELSE IF r = "hdfs" THEN Raise(m, "NameError")
    ELSE IF r = "s3" THEN put_to_s3(m, m.filepath, m.filepath, m.filename, env)
    ELSE IF r = "None" THEN m
    ELSE Raise(m, "ValueError")

\* write_data storing to the remote before the local write
write_data_store_first(m, r, d, fp, fn, full, env) ==
    LET m1 == __set_path(m, fp, fn, full)
        m2 == ensure_dir(m1)
        m3 == write_remote(m2, r, env)
    IN  _read_or_write(m3, "w", d, env)

write_data(m, r, d, fp, fn, full, env) ==
    LET m1 == __set_path(m, fp, fn, full)
        m2 == ensure_dir(m1)
        m3 == _read_or_write(m2, "w", d, env)
    IN  write_remote(m3, r, env)

\* read_data fetching whatever the download flag says
read_remote_always(m, r, download, env) ==
    IF r = "hdfs" THEN Raise(m, "NameError")
    ELSE IF r = "s3"
    THEN IF m.filepath = Unset \/ m.filename = Unset
         THEN Raise(m, "AttributeError")
         ELSE get_from_s3(m, m.filepath, m.filepath, m.filename, env)
    ELSE m

\* read_data, lines 113-120
read_remote(m, r, download, env) ==
    IF ~download THEN m
    ELSE IF r = "hdfs" THEN Raise(m, "NameError")
    ELSE IF r = "s3"
    THEN IF m.filepath = Unset \/ m.filename = Unset
         THEN Raise(m, "AttributeError")
         ELSE get_from_s3(m, m.filepath, m.filepath, m.filename, env)
    ELSE m

read_data(m, r, fp, fn, full, download, env) ==
    LET m1 == __set_path(m, fp, fn, full)
        m2 == read_remote(m1, r, download, env)
    IN  _read_or_write(m2, "r", "none", env)

write_output(m, d, fn, fp, full) ==
    LET m1 == __set_path(m, fp, fn, full)
        m2 == open_w(m1, m1.fullpath)
    IN  IF m2.err # "ok" THEN m2
        ELSE IF d # "text" THEN Raise(m2, "TypeError")
        ELSE Ev(PutFile(m2, m1.fullpath, "text"), "write", m1.fullpath)

read_input(m, fn, fp, full) ==
    LET m1 == __set_path(m, fp, fn, full)
        m2 == open_r(m1, m1.fullpath)
    IN  IF m2.err # "ok" THEN m2
        ELSE [m2 EXCEPT !.ret = m2.files[Norm(m1.fullpath)]]

----------------------------------------------------------------------------
(* The session as a state machine *)

NoFiles == [q \in {} |-> "empty"]

\* the state a call starts from
Start ==
    [filepath |-> filepath, filename |-> filename, fullpath |-> fullpath,
     data |-> data, dirs |-> dirs, files |-> files,
     trace |-> <<>>, err |-> "ok", ret |-> "none"]

\* what the environment decides during a call: whether the S3 transfer
\* succeeds, the content of the remote object, whether a reader accepts a
\* file of another format, the exit code of `hdfs dfs -test -e`, and whether
\* the hdfs copy wrote to its error stream
Env(s3ok, rcontent, lenient, testret, cperr) ==
    [s3ok |-> s3ok, rcontent |-> rcontent, lenient |-> lenient,
     testret |-> testret, cperr |-> cperr]

CallRec(op, fp, fn, full, download, d, m) ==
    [op |-> op, remote |-> remote, bucket_name |-> bucket,
     filepath |-> fp, filename |-> fn, fullpath |-> full,
     download |-> download, data |-> d, err |-> m.err, ret |-> m.ret]

\* the call ends (normally or by an exception) in state m
Finish(m, rec) ==
    /\ filepath' = m.filepath
    /\ filename' = m.filename
    /\ fullpath' = m.fullpath
    /\ data' = m.data
    /\ dirs' = m.dirs
    /\ files' = m.files
    /\ trace' = m.trace
    /\ call' = rec
    /\ ncalls' = ncalls + 1
    /\ UNCHANGED <<constructed, remote, bucket, lvars>>

Init ==
    /\ constructed = FALSE
    /\ remote = "Unset"
    /\ bucket = "Unset"
    /\ filepath = Unset
    /\ filename = Unset
    /\ fullpath = Unset
    /\ data = "Unset"
    /\ dirs = {}
    /\ files = NoFiles
    /\ call = [op |-> "none", remote |-> "Unset", bucket_name |-> "Unset",
               filepath |-> None, filename |-> None, fullpath |-> None,
               download |-> FALSE, data |-> "none", err |-> "ok", ret |-> "none"]
    /\ trace = <<>>
    /\ ncalls = 0
    /\ pages = <<>>
    /\ lpc = "idle"
    /\ next_token = ""
    /\ keys = <<>>
    /\ requests = <<>>

\* Filly(remote=r, bucket_name=b)
Construct(r, b) ==
    /\ ~constructed
    /\ constructed' = (InitErr(r, b) = "ok")
    /\ remote' = IF InitErr(r, b) = "ok" THEN r ELSE remote
    /\ bucket' = IF InitErr(r, b) = "ok" /\ r = "s3" THEN b ELSE bucket
    /\ call' = [op |-> "__init__", remote |-> r, bucket_name |-> b,
                filepath |-> None, filename |-> None, fullpath |-> None,
                download |-> FALSE, data |-> "none",
                err |-> InitErr(r, b), ret |-> "none"]
    /\ trace' = <<>>
    /\ UNCHANGED <<filepath, filename, fullpath, data, dirs, files, ncalls, lvars>>

CanCall == constructed /\ ncalls < MaxCalls

WriteData(d, fp, fn, full, s3ok) ==
    /\ CanCall
    \* choices the call cannot observe are fixed
    /\ s3ok \/ remote = "s3"
    /\ \E m \in {write_data(Start, remote, d, fp, fn, full,
                            Env(s3ok, "json", FALSE, 0, FALSE))} :
            Finish(m, CallRec("write_data", fp, fn, full, FALSE, d, m))

ReadData(fp, fn, full, download, s3ok, rcontent, lenient) ==
    /\ CanCall
    \* choices the call cannot observe are fixed
    /\ (remote = "s3" /\ download) \/ (s3ok /\ rcontent = "json")
    /\ s3ok \/ rcontent = "json"
    /\ lenient => \E q \in DOMAIN files : files[q] = "text"
    /\ \E m \in {read_data(Start, remote, fp, fn, full, download,
                           Env(s3ok, rcontent, lenient, 0, FALSE))} :
            Finish(m, CallRec("read_data", fp, fn, full, download, "none", m))

WriteOutput(d, fn, fp, full) ==
    /\ CanCall
    /\ \E m \in {write_output(Start, d, fn, fp, full)} :
            Finish(m, CallRec("write_output", fp, fn, full, FALSE, d, m))

ReadInput(fn, fp, full) ==
    /\ CanCall
    /\ \E m \in {read_input(Start, fn, fp, full)} :
            Finish(m, CallRec("read_input", fp, fn, full, FALSE, "none", m))

\* a direct call of _upload_to_hdfs(hdfs_dir) on an hdfs session
UploadToHdfs(testret, cperr) ==
    /\ CanCall
    /\ remote = "hdfs"
    /\ \E m \in {_upload_to_hdfs(Start, HdfsDir,
                                 Env(TRUE, "json", FALSE, testret, cperr))} :
            Finish(m, CallRec("_upload_to_hdfs", None, None, None, FALSE, "none", m))

\* a direct call of _download_from_hdfs(hdfs_dir) on an hdfs session
DownloadFromHdfs(cperr, rcontent) ==
    /\ CanCall
    /\ remote = "hdfs"
    /\ \E m \in {_download_from_hdfs(Start, HdfsDir,
                                     Env(TRUE, rcontent, FALSE, 0, cperr))} :
            Finish(m, CallRec("_download_from_hdfs", None, None, None, TRUE, "none", m))

Next ==
    \/ \E r \in ArgRemotes, b \in ArgBuckets : Construct(r, b)
    \/ \E d \in ArgData, fp \in ArgFilePaths, fn \in ArgFileNames,
          full \in ArgFullPaths, s3ok \in BOOLEAN :
            WriteData(d, fp, fn, full, s3ok)
    \/ \E fp \in ArgFilePaths, fn \in ArgFileNames, full \in ArgFullPaths,
          download \in BOOLEAN, s3ok \in BOOLEAN, rcontent \in RemoteContents,
          lenient \in BOOLEAN :
            ReadData(fp, fn, full, download, s3ok, rcontent, lenient)
    \/ \E d \in ArgText \cup {"dict"}, fp \in ArgFilePaths, fn \in ArgFileNames,
          full \in ArgFullPaths :
            WriteOutput(d, fn, fp, full)
    \/ \E fp \in ArgFilePaths, fn \in ArgFileNames, full \in ArgFullPaths :
            ReadInput(fn, fp, full)
    \/ \E testret \in {0, 1}, cperr \in BOOLEAN : UploadToHdfs(testret, cperr)
    \/ \E cperr \in BOOLEAN, rcontent \in RemoteContents :
            DownloadFromHdfs(cperr, rcontent)

Spec == Init /\ [][Next]_vars

----------------------------------------------------------------------------
(* S3.get_blob_references_from_s3 against an object store that returns the *)
(* pages of a listing one request after the other.                         *)

Keys == {"k1", "k2"}
Tokens == {"t1", "t2"}

RECURSIVE SeqsUpTo(_, _)
SeqsUpTo(S, n) ==
    IF n = 0 THEN {<<>>}
    ELSE SeqsUpTo(S, n - 1) \cup
         {Append(q, x) : q \in {r \in SeqsUpTo(S, n - 1) : Len(r) = n - 1}, x \in S}

\* a list_objects_v2 response: 'Contents' is a list of keys, or is missing
\* (results.get gives None); 'NextContinuationToken' is a token or missing
Page ==
    [Contents : SeqsUpTo(Keys, MaxPageKeys) \cup {None},
     NextContinuationToken : Tokens \cup {"None"}]

\* listings are finite: the last page carries no token
PageSeqs ==
    {Append(ps, last) :
        ps \in SeqsUpTo(Page, MaxPages - 1),
        last \in {pg \in Page : pg.NextContinuationToken = "None"}}

\* the loop body putting each page's keys in front of the earlier ones
list_iteration_prepend(st, results) ==
    LET contents == results.Contents
    IN  IF contents = None
        THEN [st EXCEPT !.lpc = "error"]
        ELSE [lpc |-> IF results.NextContinuationToken = "None"
                      THEN "done" ELSE "loop",
              next_token |-> results.NextContinuationToken,
              keys |-> contents \o st.keys]

\* one iteration of the while loop, given the response to its request;
\* st = [lpc, next_token, keys]
list_iteration(st, results) ==
    LET contents == results.Contents
    IN  IF contents = None
        THEN [st EXCEPT !.lpc = "error"]
        ELSE [lpc |-> IF results.NextContinuationToken = "None"
                      THEN "done" ELSE "loop",
              next_token |-> results.NextContinuationToken,
              keys |-> st.keys \o contents]

\* the ContinuationToken of the request built from next_token
\* ("absent": the request carries none)
request_token(tok) == IF tok # "" THEN tok ELSE "absent"

InitList ==
    /\ constructed = TRUE
    /\ remote = "s3"
    /\ bucket = "tmp"
    /\ filepath = Unset
    /\ filename = Unset
    /\ fullpath = Unset
    /\ data = "Unset"
    /\ dirs = {}
    /\ files = NoFiles
    /\ call = [op |-> "__init__", remote |-> "s3", bucket_name |-> "tmp",
               filepath |-> None, filename |-> None, fullpath |-> None,
               download |-> FALSE, data |-> "none", err |-> "ok", ret |-> "none"]
    /\ trace = <<>>
    /\ ncalls = 0
    /\ pages \in PageSeqs
    /\ lpc = "idle"
    /\ next_token = ""
    /\ keys = <<>>
    /\ requests = <<>>

\* get_blob_references_from_s3 is called: lines 34-39
ListStart ==
    /\ lpc = "idle"
    /\ lpc' = "loop"
    /\ next_token' = ""
    /\ keys' = <<>>
    /\ requests' = <<>>
    /\ UNCHANGED <<fvars, pages>>

\* one turn of the loop, lines 41-49 (and the return of line 51 when the
\* page carried no token)
ListRequest ==
    /\ lpc = "loop"
    /\ Len(requests) < Len(pages)
    /\ requests' = Append(requests, request_token(next_token))
    /\ \E st \in {list_iteration([lpc |-> lpc, next_token |-> next_token,
                                  keys |-> keys],
                                 pages[Len(requests) + 1])} :
            /\ lpc' = st.lpc
            /\ next_token' = st.next_token
            /\ keys' = st.keys
    /\ UNCHANGED <<fvars, pages>>

NextList == ListStart \/ ListRequest

SpecList == InitList /\ [][NextList]_vars

----------------------------------------------------------------------------
(* Properties *)

PublicOps == {"write_data", "read_data", "write_output", "read_input"}
StoreEvs == {"s3_put", "hdfs_test", "hdfs_rm", "hdfs_put"}
FetchEvs == {"s3_get", "hdfs_get"}
SupportedExts == {".json", ".csv", ".pkl", ".pickle"}

EvsOf(t) == [i \in DOMAIN t |-> t[i].ev]
HasEv(t, E) == \E i \in DOMAIN t : t[i].ev \in E

\* C1: when a call supplies fullpath together with filepath and filename,
\* the session location is the supplied fullpath, its dirname and its
\* basename.
PathPrecedence ==
    (/\ call.op \in PublicOps
     /\ call.fullpath # None
     /\ call.filepath # None
     /\ call.filename # None)
    => /\ fullpath = call.fullpath
       /\ filepath = dirname(call.fullpath)
       /\ filename = basename(call.fullpath)

ValidConfig(r, b) ==
    /\ r \in {"None", "s3", "hdfs"}
    /\ r = "s3" => b \notin {"None", ""}

\* C2: construction succeeds exactly for a remote among None, s3, hdfs with,
\* for s3, a bucket name that is neither None nor empty; otherwise it raises
\* ValueError and yields no session, so no read or write call ever reports
\* an invalid remote.
ConstructionValid ==
    /\ call.op = "__init__" =>
        /\ (call.err = "ok") <=> ValidConfig(call.remote, call.bucket_name)
        /\ call.err = "ok" => constructed /\ remote = call.remote
        /\ call.err # "ok" => call.err = "ValueError" /\ ~constructed
    /\ constructed => ValidConfig(remote, bucket)
    /\ call.op \in PublicOps => call.err # "ValueError"

ConstructionWitness ==
    /\ call.op = "__init__"
    /\ call.remote = "s3"
    /\ call.bucket_name = "tmp"
    /\ constructed
    /\ bucket = "tmp"

\* C3: in a write_data call every remote store event comes after the codec
\* write of the local file, whose directory exists; with no remote there is
\* no remote event.
WriteOrdering ==
    call.op = "write_data" =>
        /\ \A i \in DOMAIN trace :
            trace[i].ev \in StoreEvs =>
                /\ \E j \in 1..(i - 1) : trace[j].ev = "encode"
                /\ Norm(filepath) \in dirs
                /\ Norm(fullpath) \in DOMAIN files
                /\ files[Norm(fullpath)] # "empty"
        /\ remote = "None" => ~HasEv(trace, StoreEvs \cup FetchEvs)

WriteOrderingWitness ==
    /\ call.op = "write_data"
    /\ remote = "s3"
    /\ call.err = "ok"
    /\ EvsOf(trace) = <<"set_path", "makedirs", "open_w", "encode", "s3_put">>

\* C4: a read_data call with download=true on an s3 or hdfs session whose
\* path is resolved fetches from the remote after resolving the path and
\* before decoding, and a call that returns has decoded the local file.
ReadOrdering ==
    (/\ call.op = "read_data"
     /\ call.download
     /\ remote \in {"s3", "hdfs"}
     /\ filepath # Unset /\ filename # Unset /\ fullpath # Unset)
    => /\ \E i \in DOMAIN trace :
            /\ trace[i].ev \in FetchEvs
            /\ \E j \in 1..(i - 1) : trace[j].ev = "set_path"
            /\ \A j \in 1..i : trace[j].ev # "decode"
       /\ call.err = "ok" => trace[Len(trace)].ev = "decode"

CodecOf(ext) ==
    CASE ext = ".json" -> "json"
      [] ext = ".csv" -> "csv"
      [] ext \in {".pkl", ".pickle"} -> "pickle"
      [] OTHER -> "none"

NoDownloadStep ==
    /\ call'.op = "read_data"
    /\ ~call'.download
    /\ ncalls' = ncalls + 1

\* C5: a read_data call with download=false leaves the local files and
\* directories as they were, performs no remote or writing event, and when
\* it returns self.data is the decoding of the local file.
ReadNoDownload ==
    [][NoDownloadStep =>
        /\ files' = files
        /\ dirs' = dirs
        /\ \A i \in DOMAIN trace' : trace'[i].ev \in {"set_path", "open_r", "decode"}
        /\ call'.err = "ok" =>
            /\ Norm(fullpath') \in DOMAIN files
            /\ \E lenient \in BOOLEAN :
                data' = Decode(CodecOf(suffix(filename')),
                               files[Norm(fullpath')], lenient)]_vars

ReadNoDownloadWitness ==
    /\ call.op = "read_data"
    /\ ~call.download
    /\ call.err = "ok"
    /\ remote = "s3"
    /\ data = "frame"

\* C6: a write_data call whose file name has an unsupported extension fails
\* with the unsupported-format error (TypeError), opens no file and attempts
\* no remote store.
UnsupportedWrite ==
    (/\ call.op = "write_data"
     /\ filename # Unset
     /\ suffix(filename) \notin SupportedExts)
    => /\ call.err = "TypeError"
       /\ ~HasEv(trace, {"open_w", "encode"} \cup StoreEvs)

RECURSIVE ConcatKeys(_)
ConcatKeys(ps) ==
    IF ps = <<>> THEN <<>> ELSE ps[1].Contents \o ConcatKeys(Tail(ps))

\* every page has a key list and only the last page has no token
WellFormed ==
    \A i \in DOMAIN pages :
        /\ pages[i].Contents # None
        /\ (pages[i].NextContinuationToken = "None") <=> (i = Len(pages))

\* C7: for a listing whose pages all carry keys and whose last page alone has
\* no token, the first request carries no token, each later request carries
\* the token of the page before it, the keys are those of the pages received
\* so far in order, the loop ends exactly with the last page and returns the
\* concatenation of all pages' keys.
PaginationOK ==
    (WellFormed /\ lpc # "idle") =>
        /\ lpc \in {"loop", "done"}
        /\ Len(requests) <= Len(pages)
        /\ \A i \in DOMAIN requests :
            requests[i] = IF i = 1 THEN "absent"
                          ELSE pages[i - 1].NextContinuationToken
        /\ keys = ConcatKeys(SubSeq(pages, 1, Len(requests)))
        /\ (lpc = "done") <=> (Len(requests) = Len(pages))
        /\ lpc = "done" => keys = ConcatKeys(pages)

PaginationWitness ==
    /\ WellFormed
    /\ lpc = "done"
    /\ Len(pages) = 3
    /\ requests = <<"absent", "t1", "t2">>
    /\ keys = <<"k1", "k2", "k1">>

\* C8: a write_data call on an hdfs session whose local write completed runs
\* the exists-check, the delete when the remote exists, then copy-from-local,
\* and returns normally.
HdfsReplace ==
    (/\ call.op = "write_data"
     /\ remote = "hdfs"
     /\ HasEv(trace, {"encode"}))
    => /\ call.err = "ok"
       /\ \E i \in DOMAIN trace :
            /\ trace[i].ev = "hdfs_test"
            /\ \/ /\ i + 2 \in DOMAIN trace
                  /\ trace[i + 1].ev = "hdfs_rm"
                  /\ trace[i + 2].ev = "hdfs_put"
               \/ /\ i + 1 \in DOMAIN trace
                  /\ trace[i + 1].ev = "hdfs_put"

\* C9: after the path resolution of a call that names a file, filepath,
\* filename and fullpath are all set, fullpath is join(filepath, filename)
\* and the extension of filename is that of fullpath.
CanonicalTriple ==
    (/\ call.op \in PublicOps
     /\ call.filename # None \/ call.fullpath # None)
    => /\ filepath # Unset /\ filename # Unset /\ fullpath # Unset
       /\ Norm(fullpath) = Norm(join(filepath, filename))
       /\ suffix(filename) = suffix(fullpath)

NoArgStep ==
    /\ call'.op \in PublicOps
    /\ ncalls' = ncalls + 1
    /\ call'.filepath = None
    /\ call'.filename = None
    /\ call'.fullpath = None

\* C10: a read or write call without path arguments leaves filepath,
\* filename and fullpath as the previous call left them and touches only
\* paths of that triple; on a session where none was ever set it fails
\* without any file or remote event.
SessionFallback ==
    [][NoArgStep =>
        /\ <<filepath', filename', fullpath'>> = <<filepath, filename, fullpath>>
        /\ \A i \in DOMAIN trace' :
            trace'[i].path \in {fullpath, filepath, join(filepath, filename)}
        /\ (filepath = Unset /\ filename = Unset /\ fullpath = Unset) =>
            /\ call'.err # "ok"
            /\ files' = files
            /\ dirs' = dirs
            /\ \A i \in DOMAIN trace' : trace'[i].ev = "set_path"]_vars

SessionFallbackWitness ==
    /\ call.op = "read_data"
    /\ call.filepath = None /\ call.filename = None /\ call.fullpath = None
    /\ call.err = "ok"
    /\ ncalls = 2
    /\ fullpath = <<"a", SEP, "y.csv">>

====
